---------------------------- MODULE Spec2Model ----------------------------
(***************************************************************************)
(* Change detection over dated snapshot tables                             *)
(* (src/changedetection/core/change_detector.py).                          *)
(*                                                                         *)
(* Text (table names, field values, column names) is a sequence of         *)
(* one-character strings, so that slicing, LIKE matching, ORDER BY and     *)
(* concatenation are computed character by character as SQLite and Python *)
(* compute them.  A WKT text is its geometry name followed by its          *)
(* coordinates.                                                            *)
(***************************************************************************)
EXTENDS Integers, Sequences, FiniteSets, Bags, TLC

VARIABLES
    store,          \* the SQLite database: table name -> table
    files,          \* the output folder: file name -> container written
    today,          \* number of the day on which the current process runs
    info            \* what the process has recorded: the ProviderStatus of the
                    \* provider processed last, or the outcome of the last step

vars == <<store, files, today, info>>

----------------------------------------------------------------------------
(* Bounds of the model *)

\* days on which the job may run: 1..MaxDay
MaxDay == 2
\* features of a source layer in the two-snapshot comparison
MaxFeatures == 2
\* backup tables the store may hold
MaxBackups == 2
\* characters of a name handed to scrub
MaxNameLen == 4

----------------------------------------------------------------------------
(* Text *)

\* the characters in use, in ascending byte order
Chars ==
    << " ", "!", "#", ",",
       "0", "1", "2", "3", "4", "5", "6", "7", "8", "9",
       "A", "B", "C", "G", "M", "N", "X",
       "_",
       "a", "b", "c", "d", "e", "f", "g", "h", "i", "j", "k", "l", "m",
       "n", "o", "p", "q", "r", "s", "t", "u", "v", "w", "x", "y", "z" >>

\* the rank of each character in that order
OrdOf == [c \in {Chars[i] : i \in 1..Len(Chars)} |->
            CHOOSE i \in 1..Len(Chars) : Chars[i] = c]

Ord(c) == OrdOf[c]

Upper == <<"A", "B", "C", "G", "M", "N", "X">>
Lower == <<"a", "b", "c", "g", "m", "n", "x">>

LowerOf == [c \in {Upper[i] : i \in 1..Len(Upper)} |->
              Lower[CHOOSE i \in 1..Len(Upper) : Upper[i] = c]]

\* ASCII lower-casing (str.lower, and the case folding of LIKE)
lower(c) == IF c \in DOMAIN LowerOf THEN LowerOf[c] ELSE c

\* two characters that LIKE takes as the same
SameFolded(c, d) == c = d \/ lower(c) = lower(d)

Digits == {"0", "1", "2", "3", "4", "5", "6", "7", "8", "9"}
Letters == {Chars[i] : i \in 15..Len(Chars)} \ {"_"}

\* \w of the re module
IsWordChar(c) == c \in Letters \cup Digits \cup {"_"}

Range(s) == {s[i] : i \in 1..Len(s)}

\* s[i..j], empty when j < i
Slice(s, i, j) == [k \in 1..(IF j >= i THEN j - i + 1 ELSE 0) |-> s[i + k - 1]]

\* Python's s[-n:]
LastN(s, n) == IF Len(s) <= n THEN s ELSE Slice(s, Len(s) - n + 1, Len(s))

\* the binary collation of ORDER BY on text: s sorts before t
TextLess(s, t) ==
    LET shorter == IF Len(s) < Len(t) THEN Len(s) ELSE Len(t)
        differing == {i \in 1..shorter : s[i] # t[i]}
    IN  IF differing = {} THEN Len(s) < Len(t)
        ELSE LET first == CHOOSE i \in differing : \A j \in differing : i <= j
             IN  Ord(s[first]) < Ord(t[first])

\* the SQL NULL (Python None); no text equals it
Null == <<"NULL">>


\* the column's value is NULL
IsNull(v) == v = Null

\* LIKE without an ESCAPE clause
NoEscape == ""

(* The items of a LIKE pattern: "_" stands for one character, "%" for any run
   of characters, the character after esc for itself, any other for itself *)
RECURSIVE PatternItems(_, _)
PatternItems(pattern, esc) ==
    IF pattern = <<>> THEN <<>>
    ELSE IF pattern[1] = esc /\ Len(pattern) >= 2
    THEN <<[kind |-> "char", c |-> pattern[2]]>>
         \o PatternItems(Slice(pattern, 3, Len(pattern)), esc)
    ELSE IF pattern[1] = "%"
    THEN <<[kind |-> "run", c |-> "%"]>> \o PatternItems(Tail(pattern), esc)
    ELSE IF pattern[1] = "_"
    THEN <<[kind |-> "one", c |-> "_"]>> \o PatternItems(Tail(pattern), esc)
    ELSE <<[kind |-> "char", c |-> pattern[1]]>> \o PatternItems(Tail(pattern), esc)

\* items without "%" match the text character by character, letters without
\* regard to case
MatchFixed(items, text) ==
    /\ Len(items) = Len(text)
    /\ \A i \in 1..Len(items) :
          items[i].kind = "one" \/ SameFolded(items[i].c, text[i])

RECURSIVE MatchItems(_, _)
MatchItems(items, text) ==
    IF \A i \in 1..Len(items) : items[i].kind # "run"
    THEN MatchFixed(items, text)
    ELSE LET r == CHOOSE i \in 1..Len(items) :
                    items[i].kind = "run" /\ \A j \in 1..(i - 1) : items[j].kind # "run"
         IN  /\ r - 1 <= Len(text)
             /\ MatchFixed(SubSeq(items, 1, r - 1), SubSeq(text, 1, r - 1))
             /\ \/ r = Len(items)
                \/ \E k \in r..(Len(text) + 1) :
                      MatchItems(SubSeq(items, r + 1, Len(items)),
                                 SubSeq(text, k, Len(text)))

\* text LIKE pattern ESCAPE esc
Like(pattern, text, esc) == MatchItems(PatternItems(pattern, esc), text)

\* the characters that str.strip() takes as whitespace
Whitespace == {" ", "\t"}

\* str.strip()
RECURSIVE lstrip(_)
lstrip(s) == IF s # <<>> /\ s[1] \in Whitespace THEN lstrip(Tail(s)) ELSE s

RECURSIVE rstrip(_)
rstrip(s) ==
    IF s # <<>> /\ s[Len(s)] \in Whitespace
    THEN rstrip(SubSeq(s, 1, Len(s) - 1)) ELSE s

\* the text as it is, whitespace at its ends included
unstripped(s) == s

strip(s) == rstrip(lstrip(s))

\* str.replace(old, new) for one-character old and new
replace(s, old, new) == [i \in 1..Len(s) |-> IF s[i] = old THEN new ELSE s[i]]

\* str.replace(c, "")
remove(s, c) == SelectSeq(s, LAMBDA x : x # c)

scrub(dirty_string) ==
    LET stripped == strip(dirty_string)
        underscored == replace(stripped, " ", "_")
    IN  SelectSeq(underscored, IsWordChar)

----------------------------------------------------------------------------
(* Dates *)

DigitChar(n) == <<"0", "1", "2", "3", "4", "5", "6", "7", "8", "9">>[n + 1]

Pad2(n) == <<DigitChar(n \div 10), DigitChar(n % 10)>>

Pad4(n) == Pad2(n \div 100) \o Pad2(n % 100)

\* the calendar of the environment (no leap year in the modelled range)
FirstDate == [y |-> 2021, m |-> 12, d |-> 30]

DaysInMonth(m) == <<31, 28, 31, 30, 31, 30, 31, 31, 30, 31, 30, 31>>[m]

NextDate(dt) ==
    IF dt.d < DaysInMonth(dt.m) THEN [dt EXCEPT !.d = dt.d + 1]
    ELSE IF dt.m < Len(<<31, 28, 31, 30, 31, 30, 31, 31, 30, 31, 30, 31>>)
    THEN [dt EXCEPT !.m = dt.m + 1, !.d = 1]
    ELSE [y |-> dt.y + 1, m |-> 1, d |-> 1]

RECURSIVE DateOfDay(_)
DateOfDay(n) == IF n <= 1 THEN NextDate(FirstDate) ELSE NextDate(DateOfDay(n - 1))

\* datetime.date.today().strftime("%Y_%m_%d")
today_date_string(day) ==
    LET dt == DateOfDay(day)
    IN  Pad4(dt.y) \o <<"_">> \o Pad2(dt.m) \o <<"_">> \o Pad2(dt.d)

----------------------------------------------------------------------------
(* Field names of the tables, and the change types *)

SRC_PKEY == <<"s","o","u","r","c","e","_","p","r","i","m","a","r","y","_","k","e","y">>

REMOVED_FEATURE == "feature-removed"
NEW_FEATURE == "feature-added"
UPDATED_ATTRIBUTES == "attribute-update"

----------------------------------------------------------------------------
(* The configuration of a provider and its source data *)

\* compare_fields, in configured order
provider_attribute_fields == << <<"p">>, <<"q">> >>

\* carried through, never hashed
provider_reference_fields == << <<"r">> >>

\* the WKT of a geometry after the transform to the target reference system
Geometries == { <<"POINT", "1">>, <<"POINT", "2">> }

\* the values of the reference field in the source data
ReferenceValues == { <<"r">> }

\* the values (p, q) of the compare fields in the source data: any two differ
\* in p alone, in q alone or in both
CompareValues ==
    { << <<"a">>, <<>> >>, << <<"a">>, <<"b">> >>, << <<"a","b">>, <<"b">> >> }

\* a feature of a source layer: its field values and its geometry; an unset field
\* reads as the empty text
Features ==
    { [fields |-> (<<"r">> :> r) @@ (<<"p">> :> v[1]) @@ (<<"q">> :> v[2]), wkt |-> g] :
        r \in ReferenceValues,
        v \in CompareValues,
        g \in Geometries }

\* the source layers of at most n features, in iteration order
LayersUpTo(n) == UNION {[1..k -> Features] : k \in 0..n}

\* the FID of the i-th feature of a layer
GetFID(i) == i - 1

GetFieldAsString(feature, field) == feature.fields[field]

ExportToWkt(feature) == feature.wkt

\* the hex digest of a text, taken as injective
sha256(text) == <<"#">> \o text

----------------------------------------------------------------------------
(* Tables *)

TableExists(st, table_name) == table_name \in DOMAIN st

\* DROP TABLE that drops every table of the database
DropEveryTable(st, table_name) == [n \in {} |-> {}]

DropTable(st, table_name) == [n \in DOMAIN st \ {table_name} |-> st[n]]

RenameTable(st, from, to) == (to :> st[from]) @@ DropTable(st, from)

\* CREATE TABLE: an empty table of the type (1: snapshot, 2: change summary)
create_sqlite_table(st, table_name, table_type, columns) ==
    (table_name :> [table_type |-> table_type, columns |-> columns, rows |-> <<>>])
        @@ st

\* the table after INSERT of the rows; NULL for has_table_id makes it the row number
InsertRows(table, new_rows) ==
    [table EXCEPT !.rows =
        table.rows \o
        [i \in 1..Len(new_rows) |->
            [has_table_id |-> Len(table.rows) + i] @@ new_rows[i]]]

create_dataset_table(st, table_name, attribute_fields, reference_fields) ==
    create_sqlite_table(st, table_name, 1, reference_fields \o attribute_fields)

\* the value of the first compare field alone
attribute_text_of_first(feature, all_fields, attribute_fields) ==
    GetFieldAsString(feature, Head(attribute_fields))

\* the concatenation of the values of the compare fields of a feature; an empty
\* value adds nothing
RECURSIVE attribute_text(_, _, _)
attribute_text(feature, all_fields, attribute_fields) ==
    IF all_fields = <<>> THEN <<>>
    ELSE LET field == Head(all_fields)
             attribute_value == GetFieldAsString(feature, field)
         IN  (IF attribute_value # <<>> /\ field \in Range(attribute_fields)
              THEN attribute_value ELSE <<>>)
             \o attribute_text(feature, Tail(all_fields), attribute_fields)

\* the values_list of one feature
SnapshotRow(feature, fid, attribute_fields, reference_fields) ==
    LET all_provider_fields == reference_fields \o attribute_fields
        text == attribute_text(feature, all_provider_fields, attribute_fields)
        geom_text == ExportToWkt(feature)
    IN  [ source_primary_key |-> fid,
          fields |-> [f \in Range(all_provider_fields) |->
                        IF GetFieldAsString(feature, f) # <<>>
                        THEN GetFieldAsString(feature, f) ELSE Null],
          geometry_wkt |-> geom_text,
          attribute_hash |-> sha256(text),
          geometry_hash |-> sha256(geom_text),
          full_hash |-> sha256(text \o geom_text) ]

\* load_data_and_compute_hash without the DROP TABLE of an existing table
load_data_without_drop(st, table_name, layer, attribute_fields, reference_fields) ==
    LET created == IF TableExists(st, table_name) THEN st
                   ELSE create_dataset_table(st, table_name,
                                             attribute_fields, reference_fields)
        values == [i \in 1..Len(layer) |->
                     SnapshotRow(layer[i], GetFID(i),
                                 attribute_fields, reference_fields)]
    IN  [created EXCEPT ![table_name] = InsertRows(created[table_name], values)]

(* load_data_and_compute_hash on a readable source whose layer has every
   configured field: the table is dropped when it exists, created, and
   filled with one row per feature *)
load_data_and_compute_hash(st, table_name, layer, attribute_fields, reference_fields) ==
    LET dropped == IF TableExists(st, table_name)
                   THEN DropTable(st, table_name) ELSE st
        created == create_dataset_table(dropped, table_name,
                                        attribute_fields, reference_fields)
        values == [i \in 1..Len(layer) |->
                     SnapshotRow(layer[i], GetFID(i),
                                 attribute_fields, reference_fields)]
    IN  [created EXCEPT ![table_name] = InsertRows(created[table_name], values)]

----------------------------------------------------------------------------
(* identify_old_table *)

\* the names in descending order under the binary collation
OrderByNameDesc(names) ==
    LET above == [n \in names |-> Cardinality({m \in names : TextLess(n, m)})]
    IN  [i \in 1..Cardinality(names) |-> CHOOSE n \in names : above[n] = i - 1]

\* name LIKE '{provider_name}\_____\___\___' ESCAPE '\'
SnapshotPattern(provider_name) ==
    provider_name \o
    <<"\\", "_", "_", "_", "_", "_", "\\", "_", "_", "_", "\\", "_", "_", "_">>

\* name NOT LIKE '{provider_name}_from%'
ChangeTablePattern(provider_name) == provider_name \o <<"_", "f", "r", "o", "m", "%">>

\* the rows of the query over sqlite_master
SnapshotTables(st, provider_name) ==
    LET snapshot_items == PatternItems(SnapshotPattern(provider_name), "\\")
        change_items == PatternItems(ChangeTablePattern(provider_name), NoEscape)
    IN  OrderByNameDesc(
            { name \in DOMAIN st :
                /\ MatchItems(snapshot_items, name)
                /\ ~ MatchItems(change_items, name) })

identify_old_table(st, provider_name) ==
    LET all_tables == SnapshotTables(st, provider_name)
    IN  IF Len(all_tables) > 1 THEN all_tables[2] ELSE Null

----------------------------------------------------------------------------
(* create_and_populate_change_table *)

\* str(i)
RECURSIVE IntToText(_)
IntToText(n) ==
    IF n < 10 THEN <<DigitChar(n)>>
    ELSE IntToText(n \div 10) \o <<DigitChar(n % 10)>>

BackupName(change_table, i) ==
    change_table \o <<"_", "b", "a", "c", "k", "u", "p">> \o IntToText(i)

\* the backup name number i, whether a table of that name exists or not
taken_backup_table_name(st, change_table, i) == BackupName(change_table, i)

\* the backup name numbered after the number of backup tables of the database
counted_backup_table_name(st, change_table, i) ==
    BackupName(change_table,
        Cardinality({n \in DOMAIN st :
                        /\ Len(n) > Len(change_table)
                        /\ Slice(n, 1, Len(change_table)) = change_table}) + i)

\* the while loop: the first i from 1 for which no table <name>_backup<i> exists
RECURSIVE backup_table_name(_, _, _)
backup_table_name(st, change_table, i) ==
    IF TableExists(st, BackupName(change_table, i))
    THEN backup_table_name(st, change_table, i + 1)
    ELSE BackupName(change_table, i)

\* an existing change table is renamed to its next backup name
RotateChangeTable(st, change_table) ==
    IF TableExists(st, change_table)
    THEN RenameTable(st, change_table, backup_table_name(st, change_table, 1))
    ELSE st

\* f"{fieldname}_{suffix}"
ColumnName(fieldname, suffix) == fieldname \o <<"_">> \o suffix

DataFields(table_text_fields, suffix) ==
    [i \in 1..Len(table_text_fields) |-> ColumnName(table_text_fields[i], suffix)]

\* table_name[-19:-11] and table_name[-8:]
OldDateOfName(table_name) ==
    Slice(table_name,
          (IF Len(table_name) > 19 THEN Len(table_name) - 19 ELSE 0) + 1,
          Len(table_name) - 11)

NewDateOfName(table_name) == LastN(table_name, 8)

\* the columns of a change summary table, without has_table_id, change_type and
\* geometry_wkt
ChangeTableColumns(change_table, old_data_fields, new_data_fields) ==
    << ColumnName(SRC_PKEY, OldDateOfName(change_table)),
       ColumnName(SRC_PKEY, NewDateOfName(change_table)) >>
    \o old_data_fields \o new_data_fields

\* INSERT INTO t (targets) VALUES (values): the columns not named are NULL
ColumnValues(columns, targets, values) ==
    [c \in Range(columns) |->
        IF \E i \in 1..Len(targets) : targets[i] = c
        THEN values[CHOOSE i \in 1..Len(targets) : targets[i] = c]
        ELSE Null]

\* a.f1, a.f2, ... of a snapshot row
RawFields(row, table_text_fields) ==
    [i \in 1..Len(table_text_fields) |-> row.fields[table_text_fields[i]]]

\* RemovedRows with NOT IN over full_hash in place of geometry_hash
RemovedRowsByFullHash(old_rows, new_rows, columns, old_data_fields, table_text_fields) ==
    LET kept == SelectSeq(old_rows,
                    LAMBDA a : a.full_hash \notin
                               {new_rows[j].full_hash : j \in 1..Len(new_rows)})
    IN  [i \in 1..Len(kept) |->
            [ change_type |-> REMOVED_FEATURE,
              cols |-> ColumnValues(columns, old_data_fields,
                                    RawFields(kept[i], table_text_fields)),
              geometry_wkt |-> kept[i].geometry_wkt ]]

\* the rows of the old table whose geometry_hash is NOT IN the new table
RemovedRows(old_rows, new_rows, columns, old_data_fields, table_text_fields) ==
    LET kept == SelectSeq(old_rows,
                    LAMBDA a : a.geometry_hash \notin
                               {new_rows[j].geometry_hash : j \in 1..Len(new_rows)})
    IN  [i \in 1..Len(kept) |->
            [ change_type |-> REMOVED_FEATURE,
              cols |-> ColumnValues(columns, old_data_fields,
                                    RawFields(kept[i], table_text_fields)),
              geometry_wkt |-> kept[i].geometry_wkt ]]

\* the rows of the new table whose geometry_hash is NOT IN the old table
AddedRows(old_rows, new_rows, columns, new_data_fields, table_text_fields) ==
    LET kept == SelectSeq(new_rows,
                    LAMBDA b : b.geometry_hash \notin
                               {old_rows[j].geometry_hash : j \in 1..Len(old_rows)})
    IN  [i \in 1..Len(kept) |->
            [ change_type |-> NEW_FEATURE,
              cols |-> ColumnValues(columns, new_data_fields,
                                    RawFields(kept[i], table_text_fields)),
              geometry_wkt |-> kept[i].geometry_wkt ]]

\* UpdatedRows without the WHERE a.attribute_hash != b.attribute_hash
UpdatedRowsUnfiltered(old_rows, new_rows, columns, old_data_fields, new_data_fields, table_text_fields) ==
    LET n == Len(new_rows)
        m == Len(old_rows)
        pairs == [k \in 1..(n * m) |->
                    [a |-> new_rows[((k - 1) \div m) + 1],
                     b |-> old_rows[((k - 1) % m) + 1]]]
        joined == SelectSeq(pairs,
                    LAMBDA pr : pr.a.geometry_hash = pr.b.geometry_hash)
    IN  [i \in 1..Len(joined) |->
            [ change_type |-> UPDATED_ATTRIBUTES,
              cols |-> ColumnValues(columns, old_data_fields \o new_data_fields,
                                    RawFields(joined[i].a, table_text_fields)
                                    \o RawFields(joined[i].b, table_text_fields)),
              geometry_wkt |-> joined[i].a.geometry_wkt ]]

\* UpdatedRows joined ON a.source_primary_key = b.source_primary_key
UpdatedRowsByKey(old_rows, new_rows, columns, old_data_fields, new_data_fields, table_text_fields) ==
    LET n == Len(new_rows)
        m == Len(old_rows)
        pairs == [k \in 1..(n * m) |->
                    [a |-> new_rows[((k - 1) \div m) + 1],
                     b |-> old_rows[((k - 1) % m) + 1]]]
        joined == SelectSeq(pairs,
                    LAMBDA pr : /\ pr.a.source_primary_key = pr.b.source_primary_key
                                /\ pr.a.attribute_hash # pr.b.attribute_hash)
    IN  [i \in 1..Len(joined) |->
            [ change_type |-> UPDATED_ATTRIBUTES,
              cols |-> ColumnValues(columns, old_data_fields \o new_data_fields,
                                    RawFields(joined[i].a, table_text_fields)
                                    \o RawFields(joined[i].b, table_text_fields)),
              geometry_wkt |-> joined[i].a.geometry_wkt ]]

(* FROM new_table a JOIN old_table b ON a.geometry_hash = b.geometry_hash
   WHERE a.attribute_hash != b.attribute_hash: a ranges over the NEW table and
   b over the OLD table, and the select list a.*, b.* is inserted into the
   columns (old_data_fields, new_data_fields) in that order *)
UpdatedRows(old_rows, new_rows, columns, old_data_fields, new_data_fields, table_text_fields) ==
    LET n == Len(new_rows)
        m == Len(old_rows)
        pairs == [k \in 1..(n * m) |->
                    [a |-> new_rows[((k - 1) \div m) + 1],
                     b |-> old_rows[((k - 1) % m) + 1]]]
        joined == SelectSeq(pairs,
                    LAMBDA pr : /\ pr.a.geometry_hash = pr.b.geometry_hash
                                /\ pr.a.attribute_hash # pr.b.attribute_hash)
    IN  [i \in 1..Len(joined) |->
            [ change_type |-> UPDATED_ATTRIBUTES,
              cols |-> ColumnValues(columns, old_data_fields \o new_data_fields,
                                    RawFields(joined[i].a, table_text_fields)
                                    \o RawFields(joined[i].b, table_text_fields)),
              geometry_wkt |-> joined[i].a.geometry_wkt ]]

\* substr(x, 1): the leading comma is kept
substr1(text) == text

\* substr(text, 2)
substr2(text) == IF Len(text) >= 2 THEN Slice(text, 2, Len(text)) ELSE <<>>

\* the case term of the first compare field alone
ModifiedCasesOfFirst(row, attribute_fields, old_suffix, new_suffix) ==
    IF attribute_fields = <<>> THEN <<>>
    ELSE LET field == Head(attribute_fields)
         IN  IF row.cols[ColumnName(field, old_suffix)]
                    # row.cols[ColumnName(field, new_suffix)]
             THEN <<",">> \o field ELSE <<>>

\* case when f_old is not f_new then ',f' else '' end || ...
RECURSIVE ModifiedCases(_, _, _, _)
ModifiedCases(row, attribute_fields, old_suffix, new_suffix) ==
    IF attribute_fields = <<>> THEN <<>>
    ELSE LET field == Head(attribute_fields)
         IN  (IF row.cols[ColumnName(field, old_suffix)]
                    # row.cols[ColumnName(field, new_suffix)]
              THEN <<",">> \o field ELSE <<>>)
             \o ModifiedCases(row, Tail(attribute_fields), old_suffix, new_suffix)

\* ALTER TABLE ADD COLUMN attributes_modified, then the UPDATE of the
\* attribute-update rows
SetAttributesModified(row, attribute_fields, old_suffix, new_suffix) ==
    [attributes_modified |->
        IF row.change_type = UPDATED_ATTRIBUTES
        THEN substr2(ModifiedCases(row, attribute_fields, old_suffix, new_suffix))
        ELSE Null] @@ row

\* CREATE TABLE fails on a column name given twice
DuplicateColumns(columns) ==
    \E i, j \in 1..Len(columns) : i # j /\ columns[i] = columns[j]

\* the text of one term "case when ... end" of the UPDATE, as one token
CaseTerm == "case"

\* the text appended for each compare field: its case term and " || "
RECURSIVE CaseTerms(_)
CaseTerms(attribute_fields) ==
    IF attribute_fields = <<>> THEN <<>>
    ELSE <<CaseTerm, " ", "|", "|", " ">> \o CaseTerms(Tail(attribute_fields))

\* the expression assigned to attributes_modified: "substr(", the terms,
\* query[:-4], then ", 2)"
update_expression(attribute_fields) ==
    LET query == <<"s", "u", "b", "s", "t", "r", "(">> \o CaseTerms(attribute_fields)
    IN  Slice(query, 1, Len(query) - 4) \o <<",", " ", "2", ")">>

\* the text is substr(term || ... || term, 2) with at least one term, as the
\* SQL grammar asks of the call
IsSubstrCall(text) ==
    LET n == Len(text) - 11
    IN  /\ n >= 1
        /\ n % 5 = 1
        /\ Slice(text, 1, 7) = <<"s", "u", "b", "s", "t", "r", "(">>
        /\ Slice(text, 8 + n, Len(text)) = <<",", " ", "2", ")">>
        /\ \A i \in 1..n :
              text[7 + i] = <<CaseTerm, " ", "|", "|", " ">>[((i - 1) % 5) + 1]

(* The result is [raised, store]: the rename of an existing change table is
   committed before CREATE TABLE, so a failing CREATE TABLE leaves the
   rotated store; CREATE TABLE is committed, so an UPDATE that does not parse
   leaves the empty change table, the INSERTs not being committed *)
create_and_populate_change_table(st, new_table, new_table_field_suffix, old_table, old_table_field_suffix, change_table, attribute_fields, reference_fields) ==
    LET rotated == RotateChangeTable(st, change_table)
        table_text_fields == reference_fields \o attribute_fields
        old_data_fields == DataFields(table_text_fields, old_table_field_suffix)
        new_data_fields == DataFields(table_text_fields, new_table_field_suffix)
        columns == ChangeTableColumns(change_table, old_data_fields, new_data_fields)
        created == create_sqlite_table(rotated, change_table, 2, columns)
        old_rows == st[old_table].rows
        new_rows == st[new_table].rows
        inserted ==
            RemovedRows(old_rows, new_rows, columns, old_data_fields, table_text_fields)
            \o AddedRows(old_rows, new_rows, columns, new_data_fields, table_text_fields)
            \o UpdatedRows(old_rows, new_rows, columns, old_data_fields,
                           new_data_fields, table_text_fields)
        updated == [i \in 1..Len(inserted) |->
                      SetAttributesModified(inserted[i], attribute_fields,
                                            old_table_field_suffix,
                                            new_table_field_suffix)]
    IN  IF DuplicateColumns(columns)
        THEN [raised |-> TRUE, store |-> rotated]
        ELSE IF ~IsSubstrCall(update_expression(attribute_fields))
        THEN [raised |-> TRUE, store |-> created]
        ELSE [raised |-> FALSE,
              store |-> [created EXCEPT ![change_table] =
                            InsertRows(created[change_table], updated)]]

----------------------------------------------------------------------------
(* compute_stats and export_change_table *)

\* count(*) without the GROUP BY change_type
CountAllRows(rows, change_type) == Len(rows)

\* count(*) of the group of a change type
CountRows(rows, change_type) ==
    Len(SelectSeq(rows, LAMBDA row : row.change_type = change_type))

ChangeTypeOfStatistic(key) ==
    IF key = "num_new_features" THEN NEW_FEATURE
    ELSE IF key = "num_removed_features" THEN REMOVED_FEATURE
    ELSE UPDATED_ATTRIBUTES

\* one entry per change type that the GROUP BY returns, and their sum
compute_stats(st, new_table, old_table, change_table) ==
    LET rows == st[change_table].rows
        counted == { key \in {"num_new_features", "num_removed_features",
                              "num_feature_changed"} :
                        CountRows(rows, ChangeTypeOfStatistic(key)) > 0 }
    IN  [ key \in counted \cup {"num_new_records", "num_old_records", "total_changes"} |->
            IF key = "num_new_records" THEN Len(st[new_table].rows)
            ELSE IF key = "num_old_records" THEN Len(st[old_table].rows)
            ELSE IF key = "total_changes"
            THEN CountRows(rows, NEW_FEATURE) + CountRows(rows, REMOVED_FEATURE)
                 + CountRows(rows, UPDATED_ATTRIBUTES)
            ELSE CountRows(rows, ChangeTypeOfStatistic(key)) ]

\* the folder of the configuration in which the containers are written
output_folder_path == <<"o", "u", "t">>

\* os.path.join(output_folder_path, provider_name + "_" + today_date_string + "_Changes.gpkg")
gpkg_file_name(provider_name, date_string) ==
    output_folder_path \o <<"/">> \o provider_name \o <<"_">> \o date_string
    \o <<"_", "C", "h", "a", "n", "g", "e", "s", ".", "g", "p", "k", "g">>

\* os.path.dirname(path)
dirname(path) ==
    LET slashes == {i \in 1..Len(path) : path[i] = "/"}
    IN  IF slashes = {} THEN <<>>
        ELSE Slice(path, 1, (CHOOSE i \in slashes : \A j \in slashes : j <= i) - 1)

\* a folder of the file system
Directory == [directory |-> TRUE]

\* os.makedirs(outdir) when the folder does not exist
makedirs(fs, outdir) == IF outdir \in DOMAIN fs THEN fs ELSE (outdir :> Directory) @@ fs

\* os.remove(file_name) when the file exists
remove_file(fs, file_name) == [n \in DOMAIN fs \ {file_name} |-> fs[n]]

\* geom.GetGeometryName() of ogr.CreateGeometryFromWkt(wkt)
GetGeometryName(wkt) == wkt[1]

\* the geometry types that set has_multi
MultiTypes == {"MULTIPOINT", "MULTILINESTRING", "MULTIPOLYGON"}

\* ogr.ForceToMultiLineString(geom)
ForceToMultiLineString(wkt) == <<"MULTILINESTRING", "(">> \o Tail(wkt) \o <<")">>

\* ogr.ForceToMultiPolygon(geom)
ForceToMultiPolygon(wkt) == <<"MULTIPOLYGON", "(">> \o Tail(wkt) \o <<")">>

\* ogr.ForceToMultiPoint(geom)
ForceToMultiPoint(wkt) == <<"MULTIPOINT", "(">> \o Tail(wkt) \o <<")">>

(* "convert single to multi": the line strings are compared by
   geom.GetGeometryType(); the polygons and the points are compared by the
   method geom.GetGeometryType itself, which equals no geometry type *)
convert_single_to_multi(wkt) ==
    LET lines == IF GetGeometryName(wkt) = "LINESTRING"
                 THEN ForceToMultiLineString(wkt) ELSE wkt
        polygons == IF FALSE THEN ForceToMultiPolygon(lines) ELSE lines
    IN  IF FALSE THEN ForceToMultiPoint(polygons) ELSE polygons

\* a text that is set as a field of the feature: if row[incrementor]
Truthy(value) == value # Null /\ value # <<>>

\* the feature written for a row: its geometry, and its fields that are set
ExportFeature(row, has_multi) ==
    [ geometry |-> IF has_multi THEN convert_single_to_multi(row.geometry_wkt)
                   ELSE row.geometry_wkt,
      has_table_id |-> row.has_table_id,
      change_type |-> row.change_type,
      attributes_modified |-> IF Truthy(row.attributes_modified)
                              THEN row.attributes_modified ELSE Null,
      cols |-> [c \in {c \in DOMAIN row.cols : Truthy(row.cols[c])} |-> row.cols[c]] ]

\* has_multi: a geometry of the table is of a multi-part type
HasMulti(rows) ==
    \E i \in 1..Len(rows) : GetGeometryName(rows[i].geometry_wkt) \in MultiTypes

\* the container after the features of the first written rows of the table
\* were written: a layer per geometry type, named after the table and the
\* geometry name
ContainerWith(change_table, rows, written) ==
    LET has_multi == HasMulti(rows)
        features == [i \in 1..written |-> ExportFeature(rows[i], has_multi)]
        types == {GetGeometryName(features[i].geometry) : i \in 1..written}
    IN  [layers |->
            [t \in types |->
                [name |-> change_table \o <<"_", t>>,
                 features |-> SelectSeq(features,
                                LAMBDA f : GetGeometryName(f.geometry) = t)]]]

\* the container with the features of all the rows
ContainerOf(change_table, rows) == ContainerWith(change_table, rows, Len(rows))

\* export_change_table that replaces the file for an empty change table too
export_change_table_always(fs, st, change_table, file_name) ==
    (file_name :> ContainerOf(change_table, st[change_table].rows))
        @@ makedirs(remove_file(fs, file_name), dirname(file_name))

\* nothing is written for an empty change table; otherwise the file is removed,
\* its folder is made and the container is written
export_change_table(fs, st, change_table, file_name) ==
    IF Len(st[change_table].rows) > 0
    THEN (file_name :> ContainerOf(change_table, st[change_table].rows))
            @@ makedirs(remove_file(fs, file_name), dirname(file_name))
    ELSE fs

----------------------------------------------------------------------------
(* detect_changes, as process_provider calls it *)

\* old_table[-10:].replace("_", "")
TableDate(table_name) == remove(LastN(table_name, 10), "_")

\* f"{provider_name}_from{old_table_date}_to{new_table_date}"
change_summary_table_name(provider_name, old_table_date, new_table_date) ==
    provider_name \o <<"_", "f", "r", "o", "m">> \o old_table_date
    \o <<"_", "t", "o">> \o new_table_date

NewTableName(provider_name, day) ==
    provider_name \o <<"_">> \o today_date_string(day)

(* The effect of one call on the database st and the output folder fs:
   [store, files, status, stats].  An exception leaves what was committed
   before it and is reported by process_provider as status ERROR. *)
detect_changes_with_fields(st, fs, day, provider_name_raw, layer, attribute_fields, reference_fields) ==
    LET provider_name == scrub(provider_name_raw)
        new_table == NewTableName(provider_name, day)
        loaded == load_data_and_compute_hash(st, new_table, layer,
                      attribute_fields, reference_fields)
        old_table == identify_old_table(loaded, provider_name)
        old_table_date == TableDate(old_table)
        new_table_date == TableDate(new_table)
        change_table == change_summary_table_name(provider_name,
                            old_table_date, new_table_date)
        changed == create_and_populate_change_table(loaded, new_table,
                       new_table_date, old_table, old_table_date, change_table,
                       attribute_fields, reference_fields)
        tables == [new_data_table_name |-> new_table,
                   old_data_table_name |-> old_table]
    IN  IF old_table = Null
        THEN [store |-> loaded, files |-> fs, status |-> "PROCESS_OK",
              provider_name |-> provider_name_raw,
              tables |-> tables, change_table |-> Null, counts |-> <<>>]
        ELSE IF changed.raised
        THEN [store |-> changed.store, files |-> fs, status |-> "ERROR",
              provider_name |-> provider_name_raw,
              tables |-> tables, change_table |-> Null, counts |-> <<>>]
        ELSE [store |-> changed.store,
              files |-> export_change_table(fs, changed.store, change_table,
                            gpkg_file_name(provider_name, today_date_string(day))),
              status |-> "PROCESS_OK",
              provider_name |-> provider_name_raw,
              tables |-> tables, change_table |-> change_table,
              counts |-> compute_stats(changed.store, new_table, old_table,
                                       change_table)]

\* detect_changes with the compare and reference fields of the configuration
detect_changes(st, fs, day, provider_name_raw, layer) ==
    detect_changes_with_fields(st, fs, day, provider_name_raw, layer,
                               provider_attribute_fields, provider_reference_fields)

----------------------------------------------------------------------------
(* The runs of the job *)

\* the provider names of the configuration file; the first is scrubbed to M_N
Providers == { <<" ", "M", " ", "N", "!">>, <<"M", "0", "N">> }

\* the provider of the two-snapshot comparison
CompareProvider == <<"M", "0", "N">>

\* the source layers a provider publishes over the days: one feature, whose
\* geometry changes from day to day for one provider and never for the other
RunLayers(provider_name_raw) ==
    { <<f>> : f \in {g \in Features :
                        /\ g.fields[<<"p">>] = <<"a">>
                        /\ g.fields[<<"q">>] = <<>>
                        /\ provider_name_raw # CompareProvider => g.wkt = <<"POINT", "1">>} }

EmptyStore == [n \in {} |-> {}]

NotProcessed ==
    [status |-> "NOT_PROCESSED", provider_name |-> <<>>,
     tables |-> [new_data_table_name |-> Null, old_data_table_name |-> Null],
     change_table |-> Null, counts |-> <<>>]

\* the name holds the infix _backup
IsBackupTable(name) ==
    LET infix == <<"_", "b", "a", "c", "k", "u", "p">>
    IN  \E i \in 1..(Len(name) - Len(infix) + 1) :
            \A j \in 1..Len(infix) : name[i + j - 1] = infix[j]

BackupTables(st) == {name \in DOMAIN st : IsBackupTable(name)}

InfoOf(result) ==
    [status |-> result.status, provider_name |-> result.provider_name,
     tables |-> result.tables, change_table |-> result.change_table,
     counts |-> result.counts]

Init ==
    /\ store = EmptyStore
    /\ files = EmptyStore
    /\ today = 1
    /\ info = NotProcessed

\* the job runs for one provider on the current day
ProcessProvider(provider_name_raw, layer) ==
    \E result \in {detect_changes(store, files, today, provider_name_raw, layer)} :
        /\ Cardinality(BackupTables(result.store)) <= MaxBackups
        /\ store' = result.store
        /\ files' = result.files
        /\ info' = InfoOf(result)
        /\ UNCHANGED today

\* a later process starts on a later day
AdvanceDay ==
    /\ today < MaxDay
    /\ today' = today + 1
    /\ UNCHANGED <<store, files, info>>

Next ==
    \/ \E provider_name_raw \in Providers :
          \E layer \in RunLayers(provider_name_raw) :
            ProcessProvider(provider_name_raw, layer)
    \/ AdvanceDay

Spec == Init /\ [][Next]_vars

(* The comparison of two snapshots: the store holds the snapshot of the
   first day, loaded from any layer, and the job runs once on the second day
   on any layer *)
InitCompare ==
    \E layer \in LayersUpTo(MaxFeatures) :
        LET result == detect_changes(EmptyStore, EmptyStore, 1, CompareProvider, layer)
        IN  /\ store = result.store
            /\ files = result.files
            /\ today = 2
            /\ info = InfoOf(result)

Compare(layer) ==
    /\ info.change_table = Null
    /\ ProcessProvider(CompareProvider, layer)

NextCompare == \E layer \in LayersUpTo(MaxFeatures) : Compare(layer)

SpecCompare == InitCompare /\ [][NextCompare]_vars

----------------------------------------------------------------------------
(* The tables of the last comparison *)

\* the last run compared two snapshots and wrote a change table
Compared == info.status = "PROCESS_OK" /\ info.change_table # Null

OldRows == store[info.tables.old_data_table_name].rows
NewRows == store[info.tables.new_data_table_name].rows
ChangeRows == store[info.change_table].rows

OldSuffix == TableDate(info.tables.old_data_table_name)
NewSuffix == TableDate(info.tables.new_data_table_name)

AllFields == provider_reference_fields \o provider_attribute_fields

\* the values a change row holds in the columns suffixed with a date
SuffixedValues(row, suffix) ==
    [f \in Range(AllFields) |-> row.cols[ColumnName(f, suffix)]]

NoValues == [f \in Range(AllFields) |-> Null]

Indices(rows) == 1..Len(rows)

RowsOfType(change_type) ==
    {k \in Indices(ChangeRows) : ChangeRows[k].change_type = change_type}

OldUnmatched ==
    {i \in Indices(OldRows) :
        \A j \in Indices(NewRows) : NewRows[j].geometry_hash # OldRows[i].geometry_hash}

NewUnmatched ==
    {j \in Indices(NewRows) :
        \A i \in Indices(OldRows) : OldRows[i].geometry_hash # NewRows[j].geometry_hash}

\* the pairs (old row, new row) of one geometry whose attribute hashes differ
ModifiedPairs ==
    {pr \in Indices(OldRows) \X Indices(NewRows) :
        /\ OldRows[pr[1]].geometry_hash = NewRows[pr[2]].geometry_hash
        /\ OldRows[pr[1]].attribute_hash # NewRows[pr[2]].attribute_hash}

\* two snapshot rows with the same field values and geometry
SameContent(r1, r2) == r1.fields = r2.fields /\ r1.geometry_wkt = r2.geometry_wkt

\* the removed row that old row o calls for
IsRemovedRowOf(row, o) ==
    /\ row.change_type = REMOVED_FEATURE
    /\ SuffixedValues(row, OldSuffix) = o.fields
    /\ SuffixedValues(row, NewSuffix) = NoValues
    /\ row.geometry_wkt = o.geometry_wkt

\* the added row that new row n calls for
IsAddedRowOf(row, n) ==
    /\ row.change_type = NEW_FEATURE
    /\ SuffixedValues(row, NewSuffix) = n.fields
    /\ SuffixedValues(row, OldSuffix) = NoValues
    /\ row.geometry_wkt = n.geometry_wkt

\* an attribute-update row that holds the values of the pair (o, n), whichever
\* of the two sets of columns holds which
IsUpdatedRowOf(row, o, n) ==
    /\ row.change_type = UPDATED_ATTRIBUTES
    /\ row.geometry_wkt = n.geometry_wkt
    /\ \/ /\ SuffixedValues(row, OldSuffix) = o.fields
          /\ SuffixedValues(row, NewSuffix) = n.fields
       \/ /\ SuffixedValues(row, OldSuffix) = n.fields
          /\ SuffixedValues(row, NewSuffix) = o.fields

----------------------------------------------------------------------------
(* C1: the removed rows are, one for one, the old rows whose geometry_hash is
   in no new row, and the added rows are, one for one, the new rows whose
   geometry_hash is in no old row; a row whose geometry_hash is matched has no
   removed or added row *)
C1_RemovedAndAdded ==
    Compared =>
        /\ Cardinality(RowsOfType(REMOVED_FEATURE)) = Cardinality(OldUnmatched)
        /\ Cardinality(RowsOfType(NEW_FEATURE)) = Cardinality(NewUnmatched)
        /\ \A i \in OldUnmatched :
              Cardinality({k \in Indices(ChangeRows) :
                              IsRemovedRowOf(ChangeRows[k], OldRows[i])})
              = Cardinality({i2 \in OldUnmatched : SameContent(OldRows[i2], OldRows[i])})
        /\ \A j \in NewUnmatched :
              Cardinality({k \in Indices(ChangeRows) :
                              IsAddedRowOf(ChangeRows[k], NewRows[j])})
              = Cardinality({j2 \in NewUnmatched : SameContent(NewRows[j2], NewRows[j])})
        /\ \A i \in Indices(OldRows) \ OldUnmatched :
              \A k \in RowsOfType(REMOVED_FEATURE) :
                  ChangeRows[k].geometry_wkt # OldRows[i].geometry_wkt
        /\ \A j \in Indices(NewRows) \ NewUnmatched :
              \A k \in RowsOfType(NEW_FEATURE) :
                  ChangeRows[k].geometry_wkt # NewRows[j].geometry_wkt

\* a comparison with two removed rows and an added row
C1_Witness ==
    /\ Compared
    /\ Cardinality(RowsOfType(REMOVED_FEATURE)) = 2
    /\ RowsOfType(NEW_FEATURE) # {}

(* C2: the attribute-update rows are, one for one, the pairs (old row, new
   row) with equal geometry_hash and different attribute_hash *)
C2_UpdatedPairs ==
    Compared =>
        /\ Cardinality(RowsOfType(UPDATED_ATTRIBUTES)) = Cardinality(ModifiedPairs)
        /\ \A pr \in ModifiedPairs :
              Cardinality({k \in Indices(ChangeRows) :
                              IsUpdatedRowOf(ChangeRows[k], OldRows[pr[1]], NewRows[pr[2]])})
              = Cardinality({qr \in ModifiedPairs :
                    \/ /\ SameContent(OldRows[qr[1]], OldRows[pr[1]])
                       /\ SameContent(NewRows[qr[2]], NewRows[pr[2]])
                    \/ /\ SameContent(OldRows[qr[1]], NewRows[pr[2]])
                       /\ SameContent(NewRows[qr[2]], OldRows[pr[1]])})

\* a comparison with two pairs of one geometry, one modified and one not
C2_Witness ==
    /\ Compared
    /\ ModifiedPairs # {}
    /\ \E i \in Indices(OldRows), j \in Indices(NewRows) :
          /\ OldRows[i].geometry_hash = NewRows[j].geometry_hash
          /\ OldRows[i].attribute_hash = NewRows[j].attribute_hash

(* C3: in every attribute-update row the columns suffixed with the old date
   hold the values of the old row of a modified pair and the columns suffixed
   with the new date hold the values of the new row of that pair *)
C3_OldAndNewValues ==
    Compared =>
        \A k \in RowsOfType(UPDATED_ATTRIBUTES) :
            \E pr \in ModifiedPairs :
                /\ SuffixedValues(ChangeRows[k], OldSuffix) = OldRows[pr[1]].fields
                /\ SuffixedValues(ChangeRows[k], NewSuffix) = NewRows[pr[2]].fields

(* C4: a feature that is in the old and in the new snapshot with the same
   geometry and the same values of the compare fields has no row of any
   change type: no change row of its geometry holds its values *)
C4_UnchangedNeverAppear ==
    Compared =>
        \A i \in Indices(OldRows), j \in Indices(NewRows) :
            ( /\ OldRows[i].geometry_wkt = NewRows[j].geometry_wkt
              /\ \A f \in Range(provider_attribute_fields) :
                    OldRows[i].fields[f] = NewRows[j].fields[f] )
            => \A k \in Indices(ChangeRows) :
                  \/ ChangeRows[k].geometry_wkt # OldRows[i].geometry_wkt
                  \/ /\ SuffixedValues(ChangeRows[k], OldSuffix)
                            \notin {OldRows[i].fields, NewRows[j].fields}
                     /\ SuffixedValues(ChangeRows[k], NewSuffix)
                            \notin {OldRows[i].fields, NewRows[j].fields}

\* the feature of an old and a new row is the same feature of the source
SameFeature(o, n) == o.source_primary_key = n.source_primary_key

GeometriesOf(rows) == {rows[i].geometry_wkt : i \in Indices(rows)}

\* the features whose geometry changed: the old geometry is in no new row and
\* the new geometry is in no old row
GeometryChanged ==
    {pr \in Indices(OldRows) \X Indices(NewRows) :
        /\ SameFeature(OldRows[pr[1]], NewRows[pr[2]])
        /\ OldRows[pr[1]].geometry_wkt \notin GeometriesOf(NewRows)
        /\ NewRows[pr[2]].geometry_wkt \notin GeometriesOf(OldRows)}

(* C5: a feature whose old geometry is in no new row and whose new geometry is
   in no old row has one removed row with the old geometry and one added row
   with the new geometry, and no attribute-update row has either geometry,
   whether its compare fields changed or not *)
C5_GeometryChange ==
    Compared =>
        \A pr \in GeometryChanged :
            LET o == OldRows[pr[1]]
                n == NewRows[pr[2]]
            IN  /\ Cardinality({k \in Indices(ChangeRows) : IsRemovedRowOf(ChangeRows[k], o)})
                   = Cardinality({i \in Indices(OldRows) : SameContent(OldRows[i], o)})
                /\ Cardinality({k \in Indices(ChangeRows) : IsAddedRowOf(ChangeRows[k], n)})
                   = Cardinality({j \in Indices(NewRows) : SameContent(NewRows[j], n)})
                /\ \A k \in RowsOfType(UPDATED_ATTRIBUTES) :
                      ChangeRows[k].geometry_wkt \notin {o.geometry_wkt, n.geometry_wkt}

\* a feature whose geometry and compare fields changed, next to one whose
\* geometry alone changed
C5_Witness ==
    /\ Compared
    /\ \E pr \in GeometryChanged :
          OldRows[pr[1]].attribute_hash # NewRows[pr[2]].attribute_hash
    /\ \E pr \in GeometryChanged :
          OldRows[pr[1]].attribute_hash = NewRows[pr[2]].attribute_hash

\* the texts joined with commas
RECURSIVE JoinComma(_)
JoinComma(texts) ==
    IF texts = <<>> THEN <<>>
    ELSE IF Len(texts) = 1 THEN texts[1]
    ELSE texts[1] \o <<",">> \o JoinComma(Tail(texts))

\* the compare fields, in the configured order, whose values differ
DifferingFields(old_values, new_values) ==
    SelectSeq(provider_attribute_fields,
              LAMBDA f : old_values[f] # new_values[f])

(* C6: attributes_modified of an attribute-update row is the comma-joined
   list, in the configured order, of the compare fields whose values differ
   between the old and the new row of its pair, a missing value differing from
   every value; removed and added rows have no value in that column *)
C6_AttributesModified ==
    Compared =>
        \A k \in Indices(ChangeRows) :
            IF ChangeRows[k].change_type = UPDATED_ATTRIBUTES
            THEN \E pr \in ModifiedPairs :
                    /\ IsUpdatedRowOf(ChangeRows[k], OldRows[pr[1]], NewRows[pr[2]])
                    /\ ChangeRows[k].attributes_modified
                         = JoinComma(DifferingFields(OldRows[pr[1]].fields,
                                                     NewRows[pr[2]].fields))
                    /\ ChangeRows[k].attributes_modified
                         = JoinComma(DifferingFields(
                                SuffixedValues(ChangeRows[k], OldSuffix),
                                SuffixedValues(ChangeRows[k], NewSuffix)))
            ELSE ChangeRows[k].attributes_modified = Null

\* a comparison with a removed or an added row and an attribute-update row
\* whose two compare fields differ, one value missing
C6_Witness ==
    /\ Compared
    /\ RowsOfType(REMOVED_FEATURE) \cup RowsOfType(NEW_FEATURE) # {}
    /\ \E k \in RowsOfType(UPDATED_ATTRIBUTES) :
          /\ ChangeRows[k].attributes_modified = <<"p", ",", "q">>
          /\ Null \in {ChangeRows[k].cols[ColumnName(<<"q">>, OldSuffix)],
                       ChangeRows[k].cols[ColumnName(<<"q">>, NewSuffix)]}

----------------------------------------------------------------------------
(* The runs of the job over the days *)

\* the change tables of the database that are not backups
ChangeTables(st) ==
    {name \in DOMAIN st : st[name].table_type = 2 /\ ~IsBackupTable(name)}

\* the numbers of the backups of a change table
BackupsOf(st, change_table) ==
    {k \in 1..(MaxBackups + 1) : TableExists(st, BackupName(change_table, k))}

\* the step is a run of the job that wrote the change table
Creates(change_table) == today' = today /\ info'.change_table = change_table

(* C7: a creation of a change table that exists moves the existing table, rows
   unchanged, to the backup name after the last backup, the backups being
   numbered 1..n without a gap; every other change table and every backup
   stays under its name with its rows, so that the k-th creation stays
   recoverable as _backup<k> *)
C7_RotationKeepsData ==
    [][ /\ \A b \in BackupTables(store) :
              TableExists(store', b) /\ store'[b] = store[b]
        /\ \A ct \in ChangeTables(store) :
              IF Creates(ct)
              THEN LET n == Cardinality(BackupsOf(store, ct))
                   IN  /\ BackupsOf(store, ct) = 1..n
                       /\ BackupsOf(store', ct) = 1..(n + 1)
                       /\ store'[BackupName(ct, n + 1)] = store[ct]
                       /\ TableExists(store', ct)
              ELSE /\ TableExists(store', ct)
                   /\ store'[ct] = store[ct]
                   /\ BackupsOf(store', ct) = BackupsOf(store, ct) ]_vars

\* a change table after its third creation: _backup1 and _backup2 hold the
\* first two, whose rows differ
C7_Witness ==
    \E ct \in ChangeTables(store) :
        /\ BackupsOf(store, ct) = {1, 2}
        /\ store[BackupName(ct, 1)].rows # store[BackupName(ct, 2)].rows

\* the days whose snapshot of the provider is in the database
OwnSnapshotDays(st, provider_name) ==
    {d \in 1..MaxDay : TableExists(st, NewTableName(provider_name, d))}

LastDay(days) == CHOOSE d \in days : \A e \in days : e <= d

(* C8: the old table of a run is the snapshot of the provider of the latest
   day before the day of the run, and absent when the provider has no
   snapshot of an earlier day; it is never a table of another name *)
C8_OldTableOfProvider ==
    info.status # "NOT_PROCESSED" =>
        LET provider_name == scrub(info.provider_name)
            own == OwnSnapshotDays(store, provider_name)
            run_day == CHOOSE d \in own :
                          NewTableName(provider_name, d) = info.tables.new_data_table_name
            earlier == {d \in own : d < run_day}
        IN  info.tables.old_data_table_name
              = IF earlier = {} THEN Null
                ELSE NewTableName(provider_name, LastDay(earlier))

(* C9: a run for a provider that has no snapshot of another day gets no old
   table, writes no change table and no export, and leaves every table but
   the new snapshot as it was *)
C9_NoPriorSnapshot ==
    [][ (today' = today /\ info'.status # "NOT_PROCESSED") =>
          LET provider_name == scrub(info'.provider_name)
              new_table == NewTableName(provider_name, today)
              prior == OwnSnapshotDays(store, provider_name) \ {today}
          IN  prior = {} =>
                /\ info'.tables.old_data_table_name = Null
                /\ info'.change_table = Null
                /\ DOMAIN store' = DOMAIN store \cup {new_table}
                /\ \A t \in DOMAIN store \ {new_table} : store'[t] = store[t]
                /\ files' = files ]_vars

\* the snapshot tables of the database
SnapshotTableNames(st) == {name \in DOMAIN st : st[name].table_type = 1}

\* the multiset of (attribute_hash, geometry_hash, full_hash) of the rows
HashBag(rows) ==
    LET hashes(i) == <<rows[i].attribute_hash, rows[i].geometry_hash, rows[i].full_hash>>
    IN  [h \in {hashes(i) : i \in Indices(rows)} |->
            Cardinality({i \in Indices(rows) : hashes(i) = h})]

\* the layers loaded twice: one feature, or two features that may be equal
RebuildLayers ==
    LET layers == RunLayers(CompareProvider)
    IN  layers \cup {l1 \o l2 : l1 \in layers, l2 \in layers}

(* C10: loading a source into the snapshot table of the last run and loading
   it again into the same table gives as many rows as the source has features
   and the same multiset of hashes as the first load, and leaves every other
   table as it was *)
C10_IdempotentRebuild ==
    \A table_name \in SnapshotTableNames(store) \cap {info.tables.new_data_table_name},
       layer \in RebuildLayers :
        LET once == load_data_and_compute_hash(store, table_name, layer,
                        provider_attribute_fields, provider_reference_fields)
            twice == load_data_and_compute_hash(once, table_name, layer,
                        provider_attribute_fields, provider_reference_fields)
        IN  /\ Len(once[table_name].rows) = Len(layer)
            /\ Len(twice[table_name].rows) = Len(once[table_name].rows)
            /\ HashBag(twice[table_name].rows) = HashBag(once[table_name].rows)
            /\ \A t \in DOMAIN store \ {table_name} :
                  TableExists(twice, t) /\ twice[t] = store[t]

\* the job ran twice on one date with the same source: the change table and
\* its backup hold the same rows, and the snapshot holds the one feature
C10_Witness ==
    /\ info.status = "PROCESS_OK"
    /\ info.change_table # Null
    /\ TableExists(store, BackupName(info.change_table, 1))
    /\ store[BackupName(info.change_table, 1)].rows = store[info.change_table].rows
    /\ store[info.change_table].rows # <<>>
    /\ Len(store[info.tables.new_data_table_name].rows) = 1

----------------------------------------------------------------------------
(* Loading from a source that may fail *)

\* separator.join(texts)
RECURSIVE join(_, _)
join(separator, texts) ==
    IF texts = <<>> THEN <<>>
    ELSE IF Len(texts) = 1 THEN texts[1]
    ELSE texts[1] \o separator \o join(separator, Tail(texts))

(* A source: whether the driver opens it, the fields of the schema of its
   layer, whether a transform to the target reference system exists, its
   features, and the number of the feature whose INSERT fails (0: none) *)
SourceOf(readable, schema, transform, layer, failing_insert) ==
    [readable |-> readable, schema |-> schema, transform |-> transform,
     layer |-> layer, failing_insert |-> failing_insert]

\* the sources of the model: any layer on a sound source, any layer with a
\* failing INSERT, and any combination of faults on a layer of at most one feature
Sources ==
    { SourceOf(TRUE, Range(AllFields), TRUE, layer, k) :
        layer \in LayersUpTo(MaxFeatures), k \in 0..MaxFeatures }
    \cup
    { SourceOf(readable, schema, transform, layer, k) :
        readable \in BOOLEAN, schema \in SUBSET Range(AllFields),
        transform \in BOOLEAN, layer \in LayersUpTo(1), k \in 0..1 }

UnableToOpen == <<"Unable to open dataset">>

FieldsNotFound ==
    <<"The following fields specified in the configuration file do not exist in the data source: ">>

NoTransform == <<"Could not find transform to reproject">>

InsertFailed == <<"sqlite3.Error">>

\* only the first of the configured fields that the schema does not have
first_notfound(schema, all_provider_fields) ==
    LET missing == SelectSeq(all_provider_fields, LAMBDA field : field \notin schema)
    IN  IF missing = <<>> THEN <<>> ELSE <<Head(missing)>>

\* the configured fields that the schema of the layer does not have
notfound(schema, all_provider_fields) ==
    SelectSeq(all_provider_fields, LAMBDA field : field \notin schema)

(* load_data_and_compute_hash on any source: [raised, message, store].  The
   DROP TABLE and the CREATE TABLE are committed before the source is opened;
   the rows are committed after the last INSERT, so an exception leaves the
   table without rows. *)
load_data_from_source(st, table_name, source, attribute_fields, reference_fields) ==
    LET dropped == IF TableExists(st, table_name)
                   THEN DropTable(st, table_name) ELSE st
        created == create_dataset_table(dropped, table_name,
                                        attribute_fields, reference_fields)
        all_provider_fields == reference_fields \o attribute_fields
        missing == notfound(source.schema, all_provider_fields)
        failed(message) == [raised |-> TRUE, message |-> message, store |-> created]
    IN  IF ~source.readable THEN failed(UnableToOpen)
        ELSE IF Len(missing) > 0
        THEN failed(FieldsNotFound \o join(<<",", " ">>, missing))
        ELSE IF ~source.transform THEN failed(NoTransform)
        ELSE IF source.failing_insert \in 1..Len(source.layer)
        THEN failed(InsertFailed)
        ELSE [raised |-> FALSE, message |-> <<>>,
              store |-> load_data_and_compute_hash(st, table_name, source.layer,
                            attribute_fields, reference_fields)]

(* find_duplicate_features: the sets of keys the query may return.  The query
   groups by full_hash and selects the bare column source_primary_key, which
   SQLite takes from an arbitrary row of each group. *)
find_duplicate_features(st, table_name) ==
    LET rows == st[table_name].rows
        group(h) == {i \in 1..Len(rows) : rows[i].full_hash = h}
        duplicated == {h \in {rows[i].full_hash : i \in 1..Len(rows)} :
                          Cardinality(group(h)) > 1}
        selections == {s \in [duplicated -> 1..Len(rows)] :
                          \A h \in duplicated : s[h] \in group(h)}
    IN  { {IntToText(rows[s[h]].source_primary_key) : h \in duplicated} :
            s \in selections }

\* the snapshot table of the provider on the day of the load
LoadTable == NewTableName(scrub(CompareProvider), today)

InitLoad ==
    /\ store = EmptyStore
    /\ files = EmptyStore
    /\ today = 1
    /\ info = [step |-> "none", source |-> Null, raised |-> FALSE,
               message |-> <<>>, ids |-> {}]

\* what the load has seen of the source: nothing of a source that does not open
SourceRead(source) ==
    IF source.readable
    THEN [readable |-> TRUE, schema |-> source.schema,
          features |-> Len(source.layer)]
    ELSE [readable |-> FALSE, schema |-> {}, features |-> 0]

\* detect_changes loads the source of the provider
LoadSource(source) ==
    \E result \in {load_data_from_source(store, LoadTable, source,
                       provider_attribute_fields, provider_reference_fields)} :
        /\ store' = result.store
        /\ info' = [step |-> "load", source |-> SourceRead(source),
                    raised |-> result.raised, message |-> result.message,
                    ids |-> {}]
        /\ UNCHANGED <<files, today>>

\* detect_changes looks for the duplicates of the table it has loaded
FindDuplicates ==
    /\ info.step = "load"
    /\ ~info.raised
    /\ \E ids \in find_duplicate_features(store, LoadTable) :
          info' = [info EXCEPT !.step = "duplicates", !.ids = ids]
    /\ UNCHANGED <<store, files, today>>

NextLoad ==
    \/ \E source \in Sources : LoadSource(source)
    \/ FindDuplicates

SpecLoad == InitLoad /\ [][NextLoad]_vars

\* the rows of the loaded table
LoadedRows == store[LoadTable].rows

(* C11: the result of find_duplicate_features holds the source primary key of
   every row of the table whose full_hash is the full_hash of another row *)
C11_DuplicateKeys ==
    info.step = "duplicates" =>
        \A i \in Indices(LoadedRows), j \in Indices(LoadedRows) :
            (i # j /\ LoadedRows[i].full_hash = LoadedRows[j].full_hash)
                => IntToText(LoadedRows[i].source_primary_key) \in info.ids


\* the compare fields in which two rows of a snapshot table differ
DifferingCompareFields(row, other) ==
    {f \in Range(provider_attribute_fields) : row.fields[f] # other.fields[f]}

(* C12: two rows loaded with the same compare fields have the same three
   hashes when their compared values and their WKT are the same; when they
   differ in exactly one compared value their attribute_hash differs, and with
   the same WKT their geometry_hash is the same and their full_hash differs *)
C12_HashSensitivity ==
    TableExists(store, LoadTable) =>
        \A i \in Indices(LoadedRows), j \in Indices(LoadedRows) :
            LET row == LoadedRows[i]
                other == LoadedRows[j]
                differing == DifferingCompareFields(row, other)
            IN  /\ (differing = {} /\ row.geometry_wkt = other.geometry_wkt) =>
                      /\ row.attribute_hash = other.attribute_hash
                      /\ row.geometry_hash = other.geometry_hash
                      /\ row.full_hash = other.full_hash
                /\ Cardinality(differing) = 1 =>
                      /\ row.attribute_hash # other.attribute_hash
                      /\ row.geometry_wkt = other.geometry_wkt =>
                            /\ row.geometry_hash = other.geometry_hash
                            /\ row.full_hash # other.full_hash

\* a table was loaded with two features of one geometry that differ in q alone
C12_Witness ==
    /\ info.step = "load"
    /\ ~info.raised
    /\ Len(LoadedRows) = 2
    /\ LoadedRows[1].geometry_wkt = LoadedRows[2].geometry_wkt
    /\ DifferingCompareFields(LoadedRows[1], LoadedRows[2]) = {<<"q">>}

\* the field occurs in the message
Names(message, field) ==
    \E i \in 1..(Len(message) - Len(field) + 1) :
        \A j \in 1..Len(field) : message[i + j - 1] = field[j]

(* C13: a load from a source whose layer lacks a configured compare or
   reference field raises, its message names every missing field, and the
   table holds no row afterwards *)
C13_MissingFields ==
    (/\ info.step = "load"
     /\ info.source.readable
     /\ Range(AllFields) \ info.source.schema # {}) =>
        /\ info.raised
        /\ \A field \in Range(AllFields) \ info.source.schema :
              Names(info.message, field)
        /\ LoadedRows = <<>>

\* the layer of one feature lacks the reference field r and the compare field q
C13_Witness ==
    /\ info.step = "load"
    /\ info.source.readable
    /\ info.source.schema = {<<"p">>}
    /\ info.source.features = 1
    /\ info.raised
    /\ info.message = FieldsNotFound \o <<"r", ",", " ", "q">>

(* C14: a load that raises leaves the database as it was before the call, or
   with the table holding one row for every feature of the source *)
C14_AllOrNothing ==
    [][ (info'.step = "load" /\ info'.raised) =>
          \/ store' = store
          \/ /\ info'.source.readable
             /\ Len(store'[LoadTable].rows) = info'.source.features ]_vars

----------------------------------------------------------------------------
(* The export of a change table whose geometries are of several types, to a
   container that may fail to be created or written *)

(* export_change_table where the driver may not create the container and the
   write of a feature may raise: [raised, files].  The file that exists is
   removed and the folder is made before the container is created; the
   features written before an exception stay in the container. *)
export_change_table_with_faults(fs, st, change_table, file_name, created, failing_feature) ==
    LET rows == st[change_table].rows
        prepared == makedirs(remove_file(fs, file_name), dirname(file_name))
    IN  IF Len(rows) = 0 THEN [raised |-> FALSE, files |-> fs]
        ELSE IF ~created THEN [raised |-> TRUE, files |-> prepared]
        ELSE IF failing_feature \in 1..Len(rows)
        THEN [raised |-> TRUE,
              files |-> (file_name :> ContainerWith(change_table, rows,
                                                    failing_feature - 1))
                        @@ prepared]
        ELSE [raised |-> FALSE,
              files |-> export_change_table(fs, st, change_table, file_name)]

\* single-part and multi-part geometries of the three families
ExportGeometries ==
    { <<"POINT", "1">>, <<"MULTIPOINT", "(", "2", ")">>,
      <<"LINESTRING", "1">>, <<"MULTILINESTRING", "(", "2", ")">>,
      <<"POLYGON", "1">>, <<"MULTIPOLYGON", "(", "2", ")">> }

ExportFeatures ==
    { [fields |-> (<<"r">> :> <<"r">>) @@ (<<"p">> :> <<"a">>) @@ (<<"q">> :> <<>>),
       wkt |-> g] : g \in ExportGeometries }

ExportLayers == UNION {[1..k -> ExportFeatures] : k \in 0..MaxFeatures}

ExportChangeTable ==
    change_summary_table_name(scrub(CompareProvider),
        TableDate(NewTableName(scrub(CompareProvider), 1)),
        TableDate(NewTableName(scrub(CompareProvider), 2)))

ExportFile == gpkg_file_name(scrub(CompareProvider), today_date_string(2))

\* the database when detect_changes has compared the layer of the second day
\* with the empty snapshot of the first day
ExportStore(layer) ==
    LET old_table == NewTableName(scrub(CompareProvider), 1)
        new_table == NewTableName(scrub(CompareProvider), 2)
        first == load_data_and_compute_hash(EmptyStore, old_table, <<>>,
                     provider_attribute_fields, provider_reference_fields)
        second == load_data_and_compute_hash(first, new_table, layer,
                      provider_attribute_fields, provider_reference_fields)
    IN  create_and_populate_change_table(second, new_table, TableDate(new_table),
            old_table, TableDate(old_table), ExportChangeTable,
            provider_attribute_fields, provider_reference_fields).store

InitExport ==
    /\ \E layer \in ExportLayers : store = ExportStore(layer)
    /\ files = EmptyStore
    /\ today = 2
    /\ info = [step |-> "none", raised |-> FALSE]

\* detect_changes exports the change table
Export(created, failing_feature) ==
    \E result \in {export_change_table_with_faults(files, store, ExportChangeTable,
                       ExportFile, created, failing_feature)} :
        /\ files' = result.files
        /\ info' = [step |-> "export", raised |-> result.raised]
        /\ UNCHANGED <<store, today>>

NextExport ==
    \E created \in BOOLEAN, failing_feature \in 0..MaxFeatures :
        Export(created, failing_feature)

SpecExport == InitExport /\ [][NextExport]_vars

\* the rows of the exported change table
ExportRows == store[ExportChangeTable].rows

\* the families of geometry types
Families == {"POINT", "LINESTRING", "POLYGON"}

\* the multi-part type of a family
MultiOf(family) ==
    IF family = "POINT" THEN "MULTIPOINT"
    ELSE IF family = "LINESTRING" THEN "MULTILINESTRING"
    ELSE "MULTIPOLYGON"

\* the features of a family that a layer of the container holds
FamilyFeatures(layer, family) ==
    SelectSeq(layer.features,
              LAMBDA f : GetGeometryName(f.geometry) \in {family, MultiOf(family)})

(* C15: when the change table holds a single-part and a multi-part geometry
   of one family, the exported container holds all the features of the family
   in exactly one layer, and every geometry of them is multi-part *)
C15_Consolidation ==
    (info.step = "export" /\ ~info.raised /\ ExportFile \in DOMAIN files) =>
        \A family \in Families :
            LET names == {GetGeometryName(ExportRows[i].geometry_wkt) :
                            i \in Indices(ExportRows)}
                layers == files[ExportFile].layers
                holding == {t \in DOMAIN layers :
                               FamilyFeatures(layers[t], family) # <<>>}
            IN  ({family, MultiOf(family)} \subseteq names) =>
                    /\ Cardinality(holding) = 1
                    /\ \A t \in holding :
                          \A k \in Indices(layers[t].features) :
                              GetGeometryName(layers[t].features[k].geometry)
                                  = MultiOf(family)

\* the number of features of a container
RECURSIVE FeatureCount(_, _)
FeatureCount(layers, types) ==
    IF types = {} THEN 0
    ELSE LET t == CHOOSE t \in types : TRUE
         IN  Len(layers[t].features) + FeatureCount(layers, types \ {t})

(* C19: after an export of a change table that has rows, whether it returns
   or raises, the file is the container with one feature for every row or the
   file that was there before, absent when there was none *)
C19_AllOrNothing ==
    [][ (info'.step = "export" /\ ExportRows # <<>>) =>
          \/ /\ ExportFile \in DOMAIN files'
             /\ FeatureCount(files'[ExportFile].layers,
                             DOMAIN files'[ExportFile].layers) = Len(ExportRows)
          \/ /\ ExportFile \in DOMAIN files
             /\ ExportFile \in DOMAIN files'
             /\ files'[ExportFile] = files[ExportFile]
          \/ /\ ExportFile \notin DOMAIN files
             /\ ExportFile \notin DOMAIN files' ]_vars

----------------------------------------------------------------------------
(* The export and the statistics of a run *)

\* the container file of the provider processed last
LastExportFile ==
    gpkg_file_name(scrub(info.provider_name), today_date_string(today))

(* C16: a run whose change table has no rows leaves the output folder as it
   was: no container, no folder, no file removed; a run whose change table
   has rows leaves the container of its rows in the output folder *)
C16_EmptyExport ==
    [][ (today' = today /\ info'.status = "PROCESS_OK" /\ info'.change_table # Null) =>
          LET rows == store'[info'.change_table].rows
              file_name == gpkg_file_name(scrub(info'.provider_name),
                                          today_date_string(today))
          IN  /\ rows = <<>> => files' = files
              /\ rows # <<>> =>
                    /\ file_name \in DOMAIN files'
                    /\ dirname(file_name) \in DOMAIN files'
                    /\ FeatureCount(files'[file_name].layers,
                                    DOMAIN files'[file_name].layers) = Len(rows) ]_vars

\* the last run wrote an empty change table, and the container that an earlier
\* run of the day wrote is still there
C16_Witness ==
    /\ info.status = "PROCESS_OK"
    /\ info.change_table # Null
    /\ store[info.change_table].rows = <<>>
    /\ LastExportFile \in DOMAIN files
    /\ DOMAIN files[LastExportFile].layers # {}

\* the count that compute_stats reports under a key, 0 when it reports none
Reported(key) == IF key \in DOMAIN info.counts THEN info.counts[key] ELSE 0

(* C17: total_changes is the number of rows of the change table and the sum
   of the reported counts of added, removed and attribute-modified features,
   a count that is not reported being 0; it is 0 for an empty change table *)
C17_TotalChanges ==
    Compared =>
        /\ info.counts["total_changes"] = Len(ChangeRows)
        /\ info.counts["total_changes"] =
              Reported("num_new_features") + Reported("num_removed_features")
              + Reported("num_feature_changed")
        /\ \A key \in {"num_new_features", "num_removed_features",
                       "num_feature_changed"} :
              Reported(key) = Cardinality(RowsOfType(ChangeTypeOfStatistic(key)))

\* a feature was removed and a feature was added, and no count of modified
\* features is reported
C17_Witness ==
    /\ Compared
    /\ info.counts["total_changes"] = 2
    /\ Reported("num_new_features") = 1
    /\ Reported("num_removed_features") = 1
    /\ "num_feature_changed" \notin DOMAIN info.counts

----------------------------------------------------------------------------
(* The rotation of a change table in a database from which backup tables
   are dropped between the runs *)

\* the layers of the runs of one day: no feature, or one of the features
\* that the provider publishes
RotateLayers == {<<>>} \cup RunLayers(CompareProvider)

\* the database after the runs of the first and of the second day
InitRotate ==
    \E layer \in RotateLayers :
        LET first == detect_changes(EmptyStore, EmptyStore, 1, CompareProvider, <<>>)
            second == detect_changes(first.store, first.files, 2,
                                     CompareProvider, layer)
        IN  /\ store = second.store
            /\ files = second.files
            /\ today = 2
            /\ info = [step |-> "create", backups_before |-> {},
                       backup_table_name |-> Null]

\* the job runs again on the second day: the change table of the day exists
\* and is rotated
CreateChangeTable(layer) ==
    \E result \in {detect_changes(store, files, today, CompareProvider, layer)} :
        /\ Cardinality(BackupTables(result.store)) <= MaxBackups
        /\ store' = result.store
        /\ files' = result.files
        /\ info' = [step |-> "create",
                    backups_before |-> BackupsOf(store, ExportChangeTable),
                    backup_table_name |->
                        IF TableExists(store, ExportChangeTable)
                        THEN backup_table_name(store, ExportChangeTable, 1)
                        ELSE Null]
        /\ UNCHANGED today

\* a backup table is dropped when the database is tidied
DropBackup(table_name) ==
    /\ store' = DropTable(store, table_name)
    /\ info' = [step |-> "drop", backups_before |-> {},
                backup_table_name |-> Null]
    /\ UNCHANGED <<files, today>>

NextRotate ==
    \/ \E layer \in RotateLayers : CreateChangeTable(layer)
    \/ \E table_name \in BackupTables(store) : DropBackup(table_name)

SpecRotate == InitRotate /\ [][NextRotate]_vars

(* C20: a change table that exists when it is created again is renamed to
   <name>_backupN, N the smallest positive number for which no such table
   exists, also when the numbers of the backups have gaps; every backup that
   exists stays under its name with its rows *)
C20_SmallestFreeBackup ==
    [][ (info'.step = "create" /\ TableExists(store, ExportChangeTable)) =>
          LET free == {k \in 1..(MaxBackups + 1) :
                          ~TableExists(store, BackupName(ExportChangeTable, k))}
              N == CHOOSE k \in free : \A j \in free : k <= j
          IN  /\ info'.backup_table_name = BackupName(ExportChangeTable, N)
              /\ TableExists(store', BackupName(ExportChangeTable, N))
              /\ store'[BackupName(ExportChangeTable, N)] = store[ExportChangeTable]
              /\ \A b \in BackupTables(store) :
                    TableExists(store', b) /\ store'[b] = store[b] ]_vars

\* _backup2 existed and _backup1 did not: the change table was renamed to
\* _backup1, and _backup2 is still there
C20_Witness ==
    /\ info.step = "create"
    /\ info.backups_before = {2}
    /\ info.backup_table_name = BackupName(ExportChangeTable, 1)
    /\ BackupsOf(store, ExportChangeTable) = {1, 2}

----------------------------------------------------------------------------
(* process_all_providers: the providers of the configuration file are
   processed one after the other *)

\* the configuration files: the providers in an order, each with or without a url
ProviderConfigs ==
    { cfg \in [1..Cardinality(Providers) ->
                  [provider_name : Providers, url : BOOLEAN]] :
        \A i, j \in DOMAIN cfg :
            i # j => cfg[i].provider_name # cfg[j].provider_name }

\* ProviderStatus(provider_name)
ProviderStatus(provider_name) ==
    [provider_name |-> provider_name, status |-> "NOT_PROCESSED"]

\* setStatus that leaves the statistics as they are
setStatus_without_stats(self, status, message, stats) ==
    [status |-> status, message |-> message] @@ self

setStatus(self, status, message, stats) ==
    [status |-> status, message |-> message, stats |-> stats] @@ self

(* process_provider: [store, files, info].  Every exception of the download
   and of detect_changes is caught and recorded in the status. *)
process_provider(st, fs, day, entry, downloaded, layer) ==
    LET provider_name == entry.provider_name
        status == ProviderStatus(provider_name)
        result == detect_changes(st, fs, day, provider_name, layer)
    IN  IF ~entry.url
        THEN [store |-> st, files |-> fs,
              info |-> setStatus(status, "NOT_PROCESSED",
                           <<"No URL for ">> \o provider_name
                           \o <<" in configuration file.">>, <<>>)]
        ELSE IF ~downloaded
        THEN [store |-> st, files |-> fs,
              info |-> setStatus(status, "ERROR",
                                 <<"Data download failed: ">>, <<>>)]
        ELSE IF result.status = "ERROR"
        THEN [store |-> result.store, files |-> result.files,
              info |-> setStatus(status, "ERROR",
                           <<"Error while processing ">> \o provider_name
                           \o <<": ">>, <<>>)]
        ELSE [store |-> result.store, files |-> result.files,
              info |-> setStatus(status, "PROCESS_OK", <<>>,
                           [tables |-> result.tables,
                            change_table |-> result.change_table,
                            counts |-> result.counts])]

InitAll ==
    /\ store = EmptyStore
    /\ files = EmptyStore
    /\ today = 1
    /\ \E cfg \in ProviderConfigs :
          info = [provider_dict |-> cfg, next |-> 1, processed |-> <<>>]

\* the loop of process_all_providers processes the next provider
ProcessNextProvider(downloaded, layer) ==
    /\ info.next <= Len(info.provider_dict)
    /\ layer \in RunLayers(info.provider_dict[info.next].provider_name)
    /\ \E result \in {process_provider(store, files, today,
                          info.provider_dict[info.next], downloaded, layer)} :
          /\ store' = result.store
          /\ files' = result.files
          /\ info' = [info EXCEPT !.next = @ + 1,
                                  !.processed = Append(@, result.info)]
    /\ UNCHANGED today

\* the job is started again on the next day
RunAgain ==
    /\ info.next > Len(info.provider_dict)
    /\ today < MaxDay
    /\ today' = today + 1
    /\ info' = [info EXCEPT !.next = 1, !.processed = <<>>]
    /\ UNCHANGED <<store, files>>

NextAll ==
    \/ \E downloaded \in BOOLEAN, layer \in LayersUpTo(1) :
          ProcessNextProvider(downloaded, layer)
    \/ RunAgain

SpecAll == InitAll /\ [][NextAll]_vars

(* C18: the providers processed so far are the first providers of the
   configuration, each once and in its order; each has a status, a message
   and statistics, and a message that is not empty when its status is ERROR;
   whatever the status of the providers processed so far, the next provider
   of the configuration can be processed *)
C18_ProviderIsolation ==
    /\ Len(info.processed) = info.next - 1
    /\ \A i \in 1..Len(info.processed) :
          /\ info.processed[i].provider_name = info.provider_dict[i].provider_name
          /\ {"status", "message", "stats"} \subseteq DOMAIN info.processed[i]
          /\ info.processed[i].status \in {"NOT_PROCESSED", "ERROR", "PROCESS_OK"}
          /\ info.processed[i].status = "ERROR" => info.processed[i].message # <<>>
    /\ info.next <= Len(info.provider_dict) =>
          ENABLED (\E downloaded \in BOOLEAN, layer \in LayersUpTo(1) :
                      ProcessNextProvider(downloaded, layer))

\* the download of the first provider failed and the second provider was
\* processed after it
C18_Witness ==
    /\ Len(info.processed) = 2
    /\ info.processed[1].status = "ERROR"
    /\ info.processed[1].message # <<>>
    /\ info.processed[1].stats = <<>>
    /\ info.processed[2].status = "PROCESS_OK"
    /\ info.processed[2].stats # <<>>

----------------------------------------------------------------------------
(* The geometry types of an exported container *)

\* the geometry names of the rows of the exported change table
ExportRowNames ==
    {GetGeometryName(ExportRows[i].geometry_wkt) : i \in Indices(ExportRows)}

\* the feature written for the row is in a layer of the container with the
\* geometry of the row
WrittenUnchanged(container, row) ==
    \E t \in DOMAIN container.layers :
        \E k \in Indices(container.layers[t].features) :
            /\ container.layers[t].features[k].has_table_id = row.has_table_id
            /\ container.layers[t].features[k].geometry = row.geometry_wkt

(* C21: when no family has a single-part and a multi-part geometry among the
   rows of the change table, the export writes every geometry with the type
   it has in the table *)
C21_PromotionOnlyWhenMixed ==
    (info.step = "export" /\ ~info.raised /\ ExportFile \in DOMAIN files) =>
        ((\A family \in Families :
              ~({family, MultiOf(family)} \subseteq ExportRowNames)) =>
            \A i \in Indices(ExportRows) :
                WrittenUnchanged(files[ExportFile], ExportRows[i]))

----------------------------------------------------------------------------
(* The snapshot tables over the runs *)

(* C22: a step leaves every snapshot table of the database with its rows,
   but the snapshot table that the run of the step loads; the comparison, the
   statistics and the export of a run change no snapshot *)
C22_SnapshotImmutable ==
    [][ \A t \in SnapshotTableNames(store) :
          \/ /\ today' = today
             /\ info'.status # "NOT_PROCESSED"
             /\ t = info'.tables.new_data_table_name
             /\ TableExists(store', t)
             /\ store'[t].table_type = 1
          \/ /\ TableExists(store', t)
             /\ store'[t] = store[t] ]_vars

\* the run of the second day has compared, counted and exported, and the
\* snapshot of the first day holds its row
C22_Witness ==
    /\ today = 2
    /\ Compared
    /\ ChangeRows # <<>>
    /\ LastExportFile \in DOMAIN files
    /\ info.tables.old_data_table_name = NewTableName(scrub(CompareProvider), 1)
    /\ Len(OldRows) = 1

----------------------------------------------------------------------------
(* scrub on the names of the configuration *)

\* the characters of a name: whitespace, punctuation, and word characters
NameChars == {" ", "\t", "!", "_", "a", "0"}

ScrubNames == UNION {[1..k -> NameChars] : k \in 0..MaxNameLen}

InitScrub ==
    /\ store = EmptyStore
    /\ files = EmptyStore
    /\ today = 1
    /\ \E dirty_string \in ScrubNames :
          info = [step |-> "name", dirty_string |-> dirty_string,
                  clean_string |-> Null]

\* detect_changes scrubs the name of the provider
Scrub ==
    /\ info.step = "name"
    /\ info' = [info EXCEPT !.step = "scrubbed",
                            !.clean_string = scrub(info.dirty_string)]
    /\ UNCHANGED <<store, files, today>>

\* the scrubbed name is handed to scrub again
ScrubAgain ==
    /\ info.step = "scrubbed"
    /\ info' = [step |-> "name", dirty_string |-> info.clean_string,
                clean_string |-> Null]
    /\ UNCHANGED <<store, files, today>>

NextScrub == Scrub \/ ScrubAgain

SpecScrub == InitScrub /\ [][NextScrub]_vars

\* the characters of the text between its first and its last character that
\* is not whitespace, a space as an underscore, the other characters that
\* are no word characters left out
Canonical(s) ==
    LET inner == {i \in 1..Len(s) : s[i] \notin Whitespace}
        kept == {i \in 1..Len(s) :
                    /\ \E a \in inner : a <= i
                    /\ \E b \in inner : i <= b
                    /\ (s[i] = " " \/ IsWordChar(s[i]))}
        position(n) == CHOOSE i \in kept : Cardinality({j \in kept : j < i}) = n - 1
    IN  [n \in 1..Cardinality(kept) |->
            IF s[position(n)] = " " THEN "_" ELSE s[position(n)]]

(* C23: scrub gives its input without the whitespace at its ends, with every
   space left as an underscore and without any other character that is not a
   letter, a digit or an underscore; the result holds letters, digits and
   underscores only, and scrub of it is the result itself *)
C23_Scrub ==
    info.step = "scrubbed" =>
        /\ info.clean_string = Canonical(info.dirty_string)
        /\ \A i \in 1..Len(info.clean_string) : IsWordChar(info.clean_string[i])
        /\ scrub(info.clean_string) = info.clean_string

\* a name with whitespace at its start, a space inside and punctuation at its end
C23_Witness ==
    /\ info.step = "scrubbed"
    /\ info.dirty_string = <<"\t", "a", " ", "!">>
    /\ info.clean_string = <<"a", "_">>

----------------------------------------------------------------------------
(* The old table of a run, and the runs after a load that failed *)

(* C24: the old table of a run is not the new snapshot table of the run, and
   its date is before the date of the run, so that the from-date of the name
   of the change table is before its to-date *)
C24_OldBeforeNew ==
    (info.status # "NOT_PROCESSED" /\ info.tables.old_data_table_name # Null) =>
        /\ info.tables.old_data_table_name # info.tables.new_data_table_name
        /\ TextLess(TableDate(info.tables.old_data_table_name),
                    TableDate(info.tables.new_data_table_name))

\* the sources of a provider over the days: its layers on a sound source, and
\* a source that does not open, a layer without the field q, and a failing INSERT
RunSources ==
    { SourceOf(TRUE, Range(AllFields), TRUE, layer, 0) : layer \in RotateLayers }
    \cup
    { SourceOf(readable, schema, TRUE, layer, failing_insert) :
        readable \in BOOLEAN,
        schema \in {Range(AllFields), Range(AllFields) \ {<<"q">>}},
        layer \in {l \in RunLayers(CompareProvider) : l[1].wkt = <<"POINT", "1">>},
        failing_insert \in 0..1 }

(* detect_changes on any source: an exception of load_data_and_compute_hash
   ends the run with what the load has committed; loaded tells whether the
   load has returned *)
detect_changes_of_source(st, fs, day, provider_name_raw, source) ==
    LET provider_name == scrub(provider_name_raw)
        new_table == NewTableName(provider_name, day)
        loaded == load_data_from_source(st, new_table, source,
                      provider_attribute_fields, provider_reference_fields)
    IN  IF loaded.raised
        THEN [store |-> loaded.store, files |-> fs, status |-> "ERROR",
              provider_name |-> provider_name_raw,
              tables |-> [new_data_table_name |-> new_table,
                          old_data_table_name |-> Null],
              change_table |-> Null, counts |-> <<>>, loaded |-> FALSE]
        ELSE [loaded |-> TRUE]
             @@ detect_changes(st, fs, day, provider_name_raw, source.layer)

InitSources ==
    /\ store = EmptyStore
    /\ files = EmptyStore
    /\ today = 1
    /\ info = [loaded |-> {}] @@ NotProcessed

\* the job runs for the provider on the current day; loaded holds the days
\* whose snapshot table was loaded without an exception
ProcessSource(source) ==
    \E result \in {detect_changes_of_source(store, files, today,
                                            CompareProvider, source)} :
        /\ Cardinality(BackupTables(result.store)) <= MaxBackups
        /\ store' = result.store
        /\ files' = result.files
        /\ info' = [loaded |-> IF result.loaded THEN info.loaded \cup {today}
                                ELSE info.loaded \ {today}]
                   @@ InfoOf(result)
        /\ UNCHANGED today

NextSources ==
    \/ \E source \in RunSources : ProcessSource(source)
    \/ AdvanceDay

SpecSources == InitSources /\ [][NextSources]_vars

(* C25: a run that succeeds compares its new snapshot with the snapshot of
   the latest earlier day whose load succeeded, and with no table when no
   load of an earlier day succeeded *)
C25_OldTableWasLoaded ==
    (/\ info.status = "PROCESS_OK"
     /\ info.tables.new_data_table_name = NewTableName(scrub(CompareProvider), today)) =>
        LET earlier == {d \in info.loaded : d < today}
        IN  info.tables.old_data_table_name
              = IF earlier = {} THEN Null
                ELSE NewTableName(scrub(CompareProvider), LastDay(earlier))

----------------------------------------------------------------------------
(* The comparison of features whose compare fields hold values that join to
   one text *)

\* values (p, q) of the compare fields: the first two are concatenated to the
\* same text
CollidingValues ==
    { << <<"a","b">>, <<>> >>, << <<"a">>, <<"b">> >>, << <<"a">>, <<>> >> }

\* the features of one geometry with these values
CollidingFeatures ==
    { [fields |-> (<<"r">> :> <<"r">>) @@ (<<"p">> :> v[1]) @@ (<<"q">> :> v[2]),
       wkt |-> <<"POINT", "1">>] : v \in CollidingValues }

CollidingLayers == UNION {[1..k -> CollidingFeatures] : k \in 0..MaxFeatures}

\* the store holds the snapshot of the first day
InitCollide ==
    \E layer \in CollidingLayers :
        LET result == detect_changes(EmptyStore, EmptyStore, 1, CompareProvider, layer)
        IN  /\ store = result.store
            /\ files = result.files
            /\ today = 2
            /\ info = InfoOf(result)

\* the job runs once on the second day
CompareColliding(layer) ==
    /\ info.change_table = Null
    /\ ProcessProvider(CompareProvider, layer)

NextCollide == \E layer \in CollidingLayers : CompareColliding(layer)

SpecCollide == InitCollide /\ [][NextCollide]_vars

\* the compare fields in which two snapshot rows differ; a missing value and an
\* empty value are stored alike
ChangedCompareFields(o, n) ==
    {f \in Range(provider_attribute_fields) : o.fields[f] # n.fields[f]}

(* C26: every pair (old row, new row) of one geometry whose values differ in
   at least one compare field has different attribute hashes and is reported
   by an attribute-update row, also when several compare fields differ *)
C26_NoMissedChange ==
    Compared =>
        \A i \in Indices(OldRows), j \in Indices(NewRows) :
            (/\ OldRows[i].geometry_hash = NewRows[j].geometry_hash
             /\ ChangedCompareFields(OldRows[i], NewRows[j]) # {}) =>
                /\ OldRows[i].attribute_hash # NewRows[j].attribute_hash
                /\ \E k \in Indices(ChangeRows) :
                      IsUpdatedRowOf(ChangeRows[k], OldRows[i], NewRows[j])

----------------------------------------------------------------------------
(* C27: every attribute-update row lists at least one modified field: a pair
   of rows whose attribute hashes differ differs in at least one compare
   field, and attributes_modified of its row is neither missing nor empty *)
C27_ModifiedListed ==
    Compared =>
        /\ \A pr \in ModifiedPairs :
              ChangedCompareFields(OldRows[pr[1]], NewRows[pr[2]]) # {}
        /\ \A k \in RowsOfType(UPDATED_ATTRIBUTES) :
              /\ ChangeRows[k].attributes_modified # Null
              /\ ChangeRows[k].attributes_modified # <<>>

\* an attribute-update row of a pair that differs in the last compare field
\* alone
C27_Witness ==
    /\ Compared
    /\ \E k \in RowsOfType(UPDATED_ATTRIBUTES) :
          /\ ChangeRows[k].attributes_modified = <<"q">>
          /\ ChangeRows[k].cols[ColumnName(<<"p">>, OldSuffix)]
               = ChangeRows[k].cols[ColumnName(<<"p">>, NewSuffix)]

----------------------------------------------------------------------------
\* the source primary key column of a change table for a date
SourceKeyColumn(suffix) == ColumnName(SRC_PKEY, suffix)

(* C28: every change row records the source primary key of its feature: a
   removed and an attribute-update row hold the key of the old row in the
   source primary key column of the old date, an added and an attribute-update
   row hold the key of the new row in the column of the new date *)
C28_SourceKeys ==
    Compared =>
        \A k \in Indices(ChangeRows) :
            LET row == ChangeRows[k]
                old_key == row.cols[SourceKeyColumn(OldSuffix)]
                new_key == row.cols[SourceKeyColumn(NewSuffix)]
            IN  /\ row.change_type \in {REMOVED_FEATURE, UPDATED_ATTRIBUTES} =>
                      /\ old_key # Null
                      /\ \E i \in Indices(OldRows) :
                            /\ OldRows[i].source_primary_key = old_key
                            /\ OldRows[i].geometry_wkt = row.geometry_wkt
                /\ row.change_type \in {NEW_FEATURE, UPDATED_ATTRIBUTES} =>
                      /\ new_key # Null
                      /\ \E j \in Indices(NewRows) :
                            /\ NewRows[j].source_primary_key = new_key
                            /\ NewRows[j].geometry_wkt = row.geometry_wkt

----------------------------------------------------------------------------
\* name is provider_name followed by _YYYY_MM_DD
IsSnapshotNameOf(name, provider_name) ==
    LET n == Len(provider_name)
    IN  /\ Len(name) = n + 11
        /\ Slice(name, 1, n) = provider_name
        /\ \A i \in 1..11 :
              IF i \in {1, 6, 9} THEN name[n + i] = "_" ELSE name[n + i] \in Digits

(* C29: the old table that identify_old_table returns for a provider is named
   exactly the scrubbed provider name followed by _YYYY_MM_DD; it is never the
   snapshot of a provider with another scrubbed name *)
C29_ExactProviderName ==
    (info.status # "NOT_PROCESSED" /\ info.tables.old_data_table_name # Null) =>
        IsSnapshotNameOf(info.tables.old_data_table_name, scrub(info.provider_name))

----------------------------------------------------------------------------
(* The comparison of two snapshots of a provider configured without compare
   fields: every field is a reference field *)

\* the store holds the snapshot of the first day
InitReference ==
    \E layer \in LayersUpTo(MaxFeatures) :
        LET result == detect_changes_with_fields(EmptyStore, EmptyStore, 1,
                          CompareProvider, layer, <<>>, AllFields)
        IN  /\ store = result.store
            /\ files = result.files
            /\ today = 2
            /\ info = InfoOf(result)

\* the job runs once on the second day
CompareReference(layer) ==
    /\ info.tables.old_data_table_name = Null
    /\ \E result \in {detect_changes_with_fields(store, files, today,
                          CompareProvider, layer, <<>>, AllFields)} :
          /\ store' = result.store
          /\ files' = result.files
          /\ info' = InfoOf(result)
          /\ UNCHANGED today

NextReference == \E layer \in LayersUpTo(MaxFeatures) : CompareReference(layer)

SpecReference == InitReference /\ [][NextReference]_vars

(* C30: with an empty list of compare fields the comparison of two snapshots
   completes without error and writes a change table that holds removed and
   added rows only *)
C30_ReferenceOnly ==
    info.tables.old_data_table_name # Null =>
        /\ Compared
        /\ \A k \in Indices(ChangeRows) :
              ChangeRows[k].change_type \in {REMOVED_FEATURE, NEW_FEATURE}

=============================================================================
